---- MODULE Spec2Model ----
(***************************************************************************)
(* Model of noria-server/dataflow/src/payload.rs: the Packet envelope and  *)
(* its accessors (impl Packet).  One packet is held by a processing loop,  *)
(* which applies the accessor methods to it in any order.  A method that   *)
(* hits unreachable!() (or unwraps an Err) panics: the call yields no      *)
(* value and the packet is left as it was before the call.                 *)
(*                                                                         *)
(* Option<T> is a sequence of length 0 (None) or 1 (Some).                 *)
(* The instant field of a trace Event (time::Instant::now()) is not part   *)
(* of the state: no accessor reads it.                                     *)
(***************************************************************************)
EXTENDS Integers, Sequences, FiniteSets, TLC

VARIABLES pkt, op, arg, ret, invoked, chan, connected

vars == <<pkt, op, arg, ret, invoked, chan, connected>>

(* ---------------------------- bounds ----------------------------------- *)
MaxNode == 1
MaxTag == 2
MaxRow == 1
MaxLen == 1
MaxChan == 1

(* ---------------------------- value sets ------------------------------- *)
LocalNodeIndex == 0..MaxNode
Tag == 1..MaxTag
Row == 1..MaxRow
\* The tokens are opaque channel identities; one is enough to tell Some
\* from None.
SourceChannelIdentifier == {0}

None == <<>>
Some(v) == <<v>>
Option(S) == {None} \cup {Some(v) : v \in S}

SeqUpTo(S, n) == UNION {[1..k -> S] : k \in 0..n}

Records == SeqUpTo(Row, MaxLen)
RecordsDefault == <<>>

Link == [src : LocalNodeIndex, dst : LocalNodeIndex]

ReplayPieceContext ==
    [kind : {"Partial"}, for_keys : SUBSET Row, ignore : BOOLEAN]
      \cup [kind : {"Regular"}, last : BOOLEAN]

\* Tracer = Option<(tag, Option<TraceSender<Event>>)>; the tag is the id of
\* the trace (not a replay Tag) and every sender is a handle on the one
\* tracer channel chan.
TraceTag == {7}

Tracer == Option([tag : TraceTag, sender : Option({"chan"})])

PacketEvent == {"Handle", "ReachedReader"}

Senders == SeqUpTo(SourceChannelIdentifier, 1)

(* ---------------------------- Packet ----------------------------------- *)
InputPkts ==
    [variant : {"Input"},
     inner : [dst : LocalNodeIndex, data : Records],
     src : Option(SourceChannelIdentifier),
     senders : Senders]

MessagePkts ==
    [variant : {"Message"},
     link : Link,
     src : Option(SourceChannelIdentifier),
     data : Records,
     tracer : Tracer,
     senders : Senders]

ReplayPiecePkts ==
    [variant : {"ReplayPiece"},
     link : Link,
     tag : Tag,
     data : Records,
     context : ReplayPieceContext]

EvictPkts ==
    [variant : {"Evict"}, node : Option(LocalNodeIndex), num_bytes : {0, 1}]

EvictKeysPkts ==
    [variant : {"EvictKeys"}, link : Link, tag : Tag, keys : Records]

FinishPkts ==
    [variant : {"Finish"}, tag : Tag, node : LocalNodeIndex]

\* Control variants whose only fields are a node (and data no accessor
\* reads): the remaining fields are kept abstract.
NodeOnlyVariants ==
    {"AddNode", "AddBaseColumn", "DropBaseColumn", "UpdateSharder",
     "AddStreamer", "PrepareState", "StateSizeProbe", "RequestReaderReplay",
     "Ready"}

NodeOnlyPkts == [variant : NodeOnlyVariants, node : LocalNodeIndex]

RemoveNodesPkts ==
    [variant : {"RemoveNodes"}, nodes : SeqUpTo(LocalNodeIndex, 1)]

UpdateEgressPkts ==
    [variant : {"UpdateEgress"},
     node : LocalNodeIndex,
     new_tag : Option(Tag)]

SetupReplayPathPkts ==
    [variant : {"SetupReplayPath"},
     tag : Tag,
     source : Option(LocalNodeIndex),
     notify_done : BOOLEAN]

RequestPartialReplayPkts ==
    [variant : {"RequestPartialReplay"}, tag : Tag, key : Row]

StartReplayPkts ==
    [variant : {"StartReplay"}, tag : Tag, from : LocalNodeIndex]

UnitVariants == {"Quit", "Spin", "GetStatistics", "UpdateStateSize"}

UnitPkts == [variant : UnitVariants]

IsPacket(p) ==
    \/ p \in InputPkts
    \/ p \in MessagePkts
    \/ p \in ReplayPiecePkts
    \/ p \in EvictPkts
    \/ p \in EvictKeysPkts
    \/ p \in FinishPkts
    \/ p \in NodeOnlyPkts
    \/ p \in RemoveNodesPkts
    \/ p \in UpdateEgressPkts
    \/ p \in SetupReplayPathPkts
    \/ p \in RequestPartialReplayPkts
    \/ p \in StartReplayPkts
    \/ p \in UnitPkts

(* ---------------------------- results ---------------------------------- *)
\* The outcome of one call: the value it returned (tagged with its type)
\* and the packet after the call.  A panic returns no value.
Value(k, v) == [kind |-> k, val |-> v]
Fault == Value("fault", <<>>)
Unit == Value("unit", <<>>)
NoArg == Value("none", <<>>)

Result(p, r) == [pkt |-> p, ret |-> r]

(* ---------------------------- impl Packet ------------------------------ *)
\* src with an EvictKeys arm, as link_mut has.
src_with_evict_keys(p) ==
    CASE p.variant = "Input" -> Value("node", p.inner.dst)
      [] p.variant \in {"Message", "ReplayPiece", "EvictKeys"} ->
           Value("node", p.link.src)
      [] OTHER -> Fault

src(p) ==
    CASE p.variant = "Input" -> Value("node", p.inner.dst)
      [] p.variant = "Message" -> Value("node", p.link.src)
      [] p.variant = "ReplayPiece" -> Value("node", p.link.src)
      [] OTHER -> Fault

\* dst reading the link's source end.
dst_reads_src(p) ==
    CASE p.variant = "Input" -> Value("node", p.inner.dst)
      [] p.variant = "Message" -> Value("node", p.link.src)
      [] p.variant = "ReplayPiece" -> Value("node", p.link.dst)
      [] OTHER -> Fault

dst(p) ==
    CASE p.variant = "Input" -> Value("node", p.inner.dst)
      [] p.variant = "Message" -> Value("node", p.link.dst)
      [] p.variant = "ReplayPiece" -> Value("node", p.link.dst)
      [] OTHER -> Fault

\* link_mut without the EvictKeys arm.
link_mut_no_evict_keys(p, l) ==
    CASE p.variant \in {"Message", "ReplayPiece"} ->
           Result([p EXCEPT !.link = l], Value("link", l))
      [] OTHER -> Result(p, Fault)

\* *p.link_mut() = l : the write through the returned &mut Link.
link_mut(p, l) ==
    CASE p.variant = "Message" ->
           Result([p EXCEPT !.link = l], Value("link", l))
      [] p.variant = "ReplayPiece" ->
           Result([p EXCEPT !.link = l], Value("link", l))
      [] p.variant = "EvictKeys" ->
           Result([p EXCEPT !.link = l], Value("link", l))
      [] OTHER -> Result(p, Fault)

is_empty(p) ==
    CASE p.variant = "Message" -> Value("bool", Len(p.data) = 0)
      [] p.variant = "ReplayPiece" -> Value("bool", Len(p.data) = 0)
      [] OTHER -> Fault

\* The FnOnce(&mut Records) callbacks a caller may pass to map_data.
MapFns == {"clear", "truncate", "push"}

ApplyMap(f, d) ==
    CASE f = "clear" -> <<>>
      [] f = "truncate" -> IF Len(d) = 0 THEN d ELSE SubSeq(d, 1, Len(d) - 1)
      [] f = "push" -> IF Len(d) < MaxLen THEN Append(d, 1) ELSE d

\* map_data that also maps the rows of an Input.
map_data_on_input(p, f) ==
    CASE p.variant \in {"Message", "ReplayPiece"} ->
           [pkt |-> [p EXCEPT !.data = ApplyMap(f, p.data)],
            ret |-> Unit,
            invoked |-> TRUE]
      [] p.variant = "Input" ->
           [pkt |-> [p EXCEPT !.inner.data = ApplyMap(f, p.inner.data)],
            ret |-> Unit,
            invoked |-> TRUE]
      [] OTHER -> [pkt |-> p, ret |-> Fault, invoked |-> FALSE]

map_data(p, f) ==
    CASE p.variant \in {"Message", "ReplayPiece"} ->
           [pkt |-> [p EXCEPT !.data = ApplyMap(f, p.data)],
            ret |-> Unit,
            invoked |-> TRUE]
      [] OTHER -> [pkt |-> p, ret |-> Fault, invoked |-> FALSE]

is_regular(p) ==
    CASE p.variant = "Message" -> Value("bool", TRUE)
      [] OTHER -> Value("bool", FALSE)

\* tag that also answers for Finish(Tag, _).
tag_with_finish(p) ==
    CASE p.variant \in {"ReplayPiece", "EvictKeys", "Finish"} ->
           Value("opt_tag", Some(p.tag))
      [] OTHER -> Value("opt_tag", None)

tag(p) ==
    CASE p.variant = "ReplayPiece" -> Value("opt_tag", Some(p.tag))
      [] p.variant = "EvictKeys" -> Value("opt_tag", Some(p.tag))
      [] OTHER -> Value("opt_tag", None)

data(p) ==
    CASE p.variant = "Message" -> Value("records", p.data)
      [] p.variant = "ReplayPiece" -> Value("records", p.data)
      [] OTHER -> Fault

\* swap_data that rebuilds a ReplayPiece as a regular Message.
swap_data_rebuilds(p, new_data) ==
    CASE p.variant = "Message" ->
           Result([p EXCEPT !.data = new_data], Value("records", p.data))
      [] p.variant = "ReplayPiece" ->
           Result([variant |-> "Message",
                   link |-> p.link,
                   src |-> None,
                   data |-> new_data,
                   tracer |-> None,
                   senders |-> <<>>],
                  Value("records", p.data))
      [] OTHER -> Result(p, Fault)

swap_data(p, new_data) ==
    CASE p.variant = "Message" ->
           Result([p EXCEPT !.data = new_data], Value("records", p.data))
      [] p.variant = "ReplayPiece" ->
           Result([p EXCEPT !.data = new_data], Value("records", p.data))
      [] OTHER -> Result(p, Fault)

\* take_data that copies the rows out and leaves them in place.
take_data_copies(p) ==
    CASE p.variant \in {"Message", "ReplayPiece"} ->
           Result(p, Value("records", p.data))
      [] OTHER -> Result(p, Fault)

take_data(p) ==
    CASE p.variant = "Message" ->
           Result([p EXCEPT !.data = RecordsDefault], Value("records", p.data))
      [] p.variant = "ReplayPiece" ->
           Result([p EXCEPT !.data = RecordsDefault], Value("records", p.data))
      [] OTHER -> Result(p, Fault)

\* clone_data as the derived Clone: src is copied.
clone_data_keeps_src(p) ==
    CASE p.variant \in {"Message", "ReplayPiece"} -> Value("packet", p)
      [] OTHER -> Fault

clone_data(p) ==
    CASE p.variant = "Message" ->
           Value("packet",
                 [variant |-> "Message",
                  link |-> p.link,
                  src |-> None,
                  data |-> p.data,
                  tracer |-> p.tracer,
                  senders |-> p.senders])
      [] p.variant = "ReplayPiece" ->
           Value("packet",
                 [variant |-> "ReplayPiece",
                  link |-> p.link,
                  tag |-> p.tag,
                  data |-> p.data,
                  context |-> p.context])
      [] OTHER -> Fault

\* The pattern Packet::Message { tracer: Some((tag, Some(ref sender))), .. }
ActiveTracer(p) ==
    /\ p.variant = "Message"
    /\ p.tracer # None
    /\ p.tracer[1].sender # None

\* sender.send(..) is Err once the receiving end is gone; unwrap() of an
\* Err panics.  sent is what reaches the channel.
trace(p, event, conn) ==
    IF ActiveTracer(p)
      THEN IF conn
             THEN [ret |-> Unit,
                   sent |-> <<[event |-> event, tag |-> p.tracer[1].tag]>>]
             ELSE [ret |-> Fault, sent |-> <<>>]
      ELSE [ret |-> Unit, sent |-> <<>>]

\* if let Some(t) = p.tracer() { *t = new_tracer } : the write through the
\* returned Option<&mut Tracer>.
tracer(p, new_tracer) ==
    CASE p.variant = "Message" ->
           Result([p EXCEPT !.tracer = new_tracer],
                  Value("opt_tracer", Some(new_tracer)))
      [] OTHER -> Result(p, Value("opt_tracer", None))

(* ---------------------------- the state machine ------------------------ *)
Init ==
    /\ IsPacket(pkt)
    /\ op = "new"
    /\ arg = NoArg
    /\ ret = Unit
    /\ invoked = FALSE
    /\ chan = <<>>
    /\ connected = TRUE

\* A call of a &self method: the packet cannot change.
Read(name, a, r) ==
    /\ op' = name
    /\ arg' = a
    /\ ret' = r
    /\ invoked' = FALSE
    /\ UNCHANGED <<pkt, chan, connected>>

\* A call of a &mut self method.
Write(name, a, res) ==
    /\ op' = name
    /\ arg' = a
    /\ ret' = res.ret
    /\ pkt' = res.pkt
    /\ invoked' = FALSE
    /\ UNCHANGED <<chan, connected>>

Src == Read("src", NoArg, src(pkt))

Dst == Read("dst", NoArg, dst(pkt))

LinkMut == \E l \in Link : Write("link_mut", Value("link", l), link_mut(pkt, l))

IsEmpty == Read("is_empty", NoArg, is_empty(pkt))

MapData ==
    \E f \in MapFns :
        LET res == map_data(pkt, f) IN
        /\ op' = "map_data"
        /\ arg' = Value("fn", f)
        /\ ret' = res.ret
        /\ pkt' = res.pkt
        /\ invoked' = res.invoked
        /\ UNCHANGED <<chan, connected>>

IsRegular == Read("is_regular", NoArg, is_regular(pkt))

TagOf == Read("tag", NoArg, tag(pkt))

Data == Read("data", NoArg, data(pkt))

SwapData ==
    \E n \in Records :
        Write("swap_data", Value("records", n), swap_data(pkt, n))

TakeData == Write("take_data", NoArg, take_data(pkt))

CloneData == Read("clone_data", NoArg, clone_data(pkt))

Trace ==
    \E e \in PacketEvent :
        LET res == trace(pkt, e, connected) IN
        /\ Len(chan) + Len(res.sent) <= MaxChan
        /\ op' = "trace"
        /\ arg' = Value("event", e)
        /\ ret' = res.ret
        /\ chan' = chan \o res.sent
        /\ invoked' = FALSE
        /\ UNCHANGED <<pkt, connected>>

TracerMut ==
    \E t \in Tracer : Write("tracer", Value("tracer", t), tracer(pkt, t))

\* The tracing client reads one event off the channel.
Recv ==
    /\ connected
    /\ chan # <<>>
    /\ chan' = Tail(chan)
    /\ UNCHANGED <<pkt, op, arg, ret, invoked, connected>>

\* The tracing client drops its receiver.
DropReceiver ==
    /\ connected
    /\ connected' = FALSE
    /\ UNCHANGED <<pkt, op, arg, ret, invoked, chan>>

Next ==
    \/ Src
    \/ Dst
    \/ LinkMut
    \/ IsEmpty
    \/ MapData
    \/ IsRegular
    \/ TagOf
    \/ Data
    \/ SwapData
    \/ TakeData
    \/ CloneData
    \/ Trace
    \/ TracerMut
    \/ Recv
    \/ DropReceiver

Spec == Init /\ [][Next]_vars

(* ---------------------------- properties ------------------------------- *)
DataVariants == {"Message", "ReplayPiece"}
AddressVariants == {"Input", "Message", "ReplayPiece"}
LinkVariants == {"Message", "ReplayPiece", "EvictKeys"}
TagVariants == {"ReplayPiece", "EvictKeys"}
PayloadOps == {"is_empty", "data", "map_data", "swap_data", "take_data"}

\* A step that is a method call (not a step of the tracing client).
IsCall == UNCHANGED connected /\ (chan' = chan \/ op' = "trace")

\* C1: src and dst return a node address iff the packet is an Input, a
\* Message or a ReplayPiece; on every other variant the call is a fault
\* and yields no value.
C1_AccessorDomain ==
    op \in {"src", "dst"} =>
        /\ (ret.kind = "node") <=> (pkt.variant \in AddressVariants)
        /\ ret.kind = "node" => ret.val \in LocalNodeIndex
        /\ ret.kind # "node" => ret = Fault

C1_Witness ==
    /\ op = "src"
    /\ pkt.variant = "EvictKeys"
    /\ ret = Fault

\* C2: clone_data on a Message or ReplayPiece returns a packet of the same
\* variant: a Message clone has src None and the original's link, data,
\* tracer and senders; a ReplayPiece clone has the original's link, tag,
\* data and context.  The original is unchanged, and clone_data faults on
\* every other variant.
C2_CloneState ==
    op = "clone_data" =>
        /\ pkt.variant = "Message" =>
             /\ ret.kind = "packet"
             /\ ret.val.variant = "Message"
             /\ ret.val.src = None
             /\ ret.val.link = pkt.link
             /\ ret.val.data = pkt.data
             /\ ret.val.tracer = pkt.tracer
             /\ ret.val.senders = pkt.senders
             /\ ret.val \in MessagePkts
        /\ pkt.variant = "ReplayPiece" =>
             /\ ret.kind = "packet"
             /\ ret.val.variant = "ReplayPiece"
             /\ ret.val.link = pkt.link
             /\ ret.val.tag = pkt.tag
             /\ ret.val.data = pkt.data
             /\ ret.val.context = pkt.context
             /\ ret.val \in ReplayPiecePkts
        /\ pkt.variant \notin DataVariants => ret = Fault

C2_CloneData ==
    /\ []C2_CloneState
    /\ [][op' = "clone_data" /\ IsCall => pkt' = pkt]_vars

C2_Witness ==
    /\ op = "clone_data"
    /\ pkt.variant = "Message"
    /\ pkt.src # None
    /\ ret.kind = "packet"
    /\ ret.val.src = None

\* C3: on a Message or ReplayPiece holding D, take_data returns D and
\* leaves empty Records (is_empty is then true, a second take_data returns
\* empty Records); swap_data(N) returns D and leaves N (swap_data(D)
\* afterwards returns N and restores D).  Neither changes any other field.
C3_TakeStep ==
    (op' = "take_data" /\ IsCall /\ pkt.variant \in DataVariants) =>
        /\ ret' = Value("records", pkt.data)
        /\ pkt' = [pkt EXCEPT !.data = RecordsDefault]
        /\ is_empty(pkt') = Value("bool", TRUE)

C3_TakeTwice ==
    (op = "take_data" /\ ret.kind = "records" /\ IsCall) =>
        /\ op' = "take_data" => ret' = Value("records", RecordsDefault)
        /\ op' = "is_empty" => ret' = Value("bool", TRUE)

C3_SwapStep ==
    (op' = "swap_data" /\ IsCall /\ pkt.variant \in DataVariants) =>
        /\ ret' = Value("records", pkt.data)
        /\ pkt' = [pkt EXCEPT !.data = arg'.val]

C3_SwapBack ==
    (/\ op = "swap_data"
     /\ ret.kind = "records"
     /\ IsCall
     /\ op' = "swap_data"
     /\ arg'.val = ret.val) =>
        /\ ret' = Value("records", arg.val)
        /\ pkt'.data = ret.val

C3_TakeSwap ==
    [][C3_TakeStep /\ C3_TakeTwice /\ C3_SwapStep /\ C3_SwapBack]_vars

C3_Witness ==
    /\ op = "take_data"
    /\ pkt.variant = "ReplayPiece"
    /\ ret.kind = "records"
    /\ ret.val # RecordsDefault
    /\ pkt.data = RecordsDefault

\* C4: tag never faults: it returns Some(tag) for ReplayPiece and
\* EvictKeys and None for every other variant, the tag-carrying control
\* variants included.
C4_TagTotal ==
    op = "tag" =>
        /\ ret.kind = "opt_tag"
        /\ pkt.variant \in TagVariants => ret.val = Some(pkt.tag)
        /\ pkt.variant \notin TagVariants => ret.val = None

C4_Witness ==
    /\ op = "tag"
    /\ pkt.variant = "Finish"
    /\ ret = Value("opt_tag", None)

\* C5: link_mut yields the Link exactly for Message, ReplayPiece and
\* EvictKeys, and a write through it changes only the link; on every other
\* variant, Input included, it faults.
C5_LinkMut ==
    [][(op' = "link_mut" /\ IsCall) =>
          IF pkt.variant \in LinkVariants
            THEN /\ ret'.kind = "link"
                 /\ pkt' = [pkt EXCEPT !.link = arg'.val]
            ELSE /\ ret' = Fault
                 /\ pkt' = pkt]_vars

C5_Witness ==
    /\ op = "link_mut"
    /\ pkt.variant = "EvictKeys"
    /\ ret.kind = "link"
    /\ pkt.link = arg.val

\* C6: is_empty, data, map_data, swap_data and take_data never fault on a
\* Message or ReplayPiece; on every other variant each faults, leaves the
\* packet as it was and does not invoke the map_data callback.
C6_PayloadDomain ==
    [][(op' \in PayloadOps /\ IsCall) =>
          IF pkt.variant \in DataVariants
            THEN ret' # Fault
            ELSE /\ ret' = Fault
                 /\ pkt' = pkt
                 /\ invoked' = FALSE]_vars

C6_Witness ==
    /\ op = "map_data"
    /\ pkt.variant = "Input"
    /\ ret = Fault
    /\ ~invoked

C9_EndpointState ==
    /\ (op = "src" /\ pkt.variant \in DataVariants) =>
           ret = Value("node", pkt.link.src)
    /\ (op = "dst" /\ pkt.variant \in DataVariants) =>
           ret = Value("node", pkt.link.dst)
    /\ (op \in {"src", "dst"} /\ pkt.variant = "Input") =>
           ret = Value("node", pkt.inner.dst)
    /\ pkt.variant = "Input" => src(pkt) = dst(pkt)

C9_AfterWrite ==
    (/\ op = "link_mut"
     /\ ret.kind = "link"
     /\ IsCall
     /\ pkt.variant \in DataVariants) =>
        /\ op' = "src" => ret' = Value("node", arg.val.src)
        /\ op' = "dst" => ret' = Value("node", arg.val.dst)

C9_Endpoints == []C9_EndpointState /\ [][C9_AfterWrite]_vars

C9_Witness ==
    /\ op = "dst"
    /\ pkt.variant = "Message"
    /\ pkt.link.src # pkt.link.dst
    /\ ret = Value("node", pkt.link.dst)

\* C10: no operation changes the packet's variant, the Tag of a
\* ReplayPiece or EvictKeys, or the context of a ReplayPiece, so tag() and
\* is_regular() keep their answers; the only fields that change are link
\* (link_mut), data (map_data, swap_data, take_data) and tracer (tracer).
C10_Step ==
    /\ pkt'.variant = pkt.variant
    /\ pkt.variant \in TagVariants => pkt'.tag = pkt.tag
    /\ pkt.variant = "ReplayPiece" => pkt'.context = pkt.context
    /\ tag(pkt') = tag(pkt)
    /\ is_regular(pkt') = is_regular(pkt)
    /\ pkt' # pkt =>
         \/ /\ op' = "link_mut"
            /\ pkt.variant \in LinkVariants
            /\ pkt' = [pkt EXCEPT !.link = pkt'.link]
         \/ /\ op' \in {"map_data", "swap_data", "take_data"}
            /\ pkt.variant \in DataVariants
            /\ pkt' = [pkt EXCEPT !.data = pkt'.data]
         \/ /\ op' = "tracer"
            /\ pkt.variant = "Message"
            /\ pkt' = [pkt EXCEPT !.tracer = pkt'.tracer]

C10_VariantStable == [][C10_Step]_vars

C10_Witness ==
    /\ op = "swap_data"
    /\ pkt.variant = "ReplayPiece"
    /\ ret.kind = "records"
    /\ ret.val # pkt.data
    /\ tag(pkt) = Value("opt_tag", Some(pkt.tag))
====
